---- MODULE Spec2Model ----
(***************************************************************************)
(* Model of the asynchronous logging pipeline of                           *)
(* src/api/techniques/async_logging.py: the module-level queue.Queue       *)
(* (log_queue), the module-level threading.Event (should_stop), the worker *)
(* threads started by setup_async_logging, the producers' log_request and  *)
(* the caller of stop_async_logging.                                       *)
(*                                                                         *)
(* A step of the model is one access of a thread to shared state (the      *)
(* queue, the event, the sink, stderr) together with the local computation *)
(* before it. Two pairs of accesses are taken as one step: the two reads   *)
(* of the loop condition of log_worker (see WorkerCheck), and the logger   *)
(* call with the task_done that follows it (see WorkerDispatch; nothing    *)
(* reads the sink between the two).                                        *)
(*                                                                         *)
(* Further parts of the repository are modelled after the pipeline, each   *)
(* with its own variables, initial condition and specification, the        *)
(* variables of the other parts staying at their idle values:              *)
(*   PaginationSpec  src/api/techniques/pagination.py, paginate_results    *)
(*   EndpointSpec    src/api/app.py, get_posts_with_caching                *)
(*   BenchmarkSpec   src/benchmarks/benchmark.py, benchmark_url            *)
(*   SubmissionSpec  log_request and log_worker with dicts as objects      *)
(*   BenchmarkFairSpec  the same, with a fair event loop                   *)
(*   TraversalSpec   pagination.py, cursor_based_pagination                *)
(*   CompressionSpec src/api/techniques/compression.py, compress_response  *)
(*   NPlus1Spec      src/api/techniques/avoid_n_plus_1.py, both functions  *)
(*   PoolSpec        src/api/techniques/connection_pool.py, get_async_db   *)
(*   HandlerSpec     async_logging.py, AsyncLogHandler.emit and the worker *)
(***************************************************************************)
EXTENDS Integers, Sequences, FiniteSets, TLC

\* ---------------------------------------------------------------- bounds
\* Number of log_request calls that reach log_queue.put.
MaxEntries == 3
\* Number of setup_async_logging calls (each starts one worker thread).
NumWorkers == 2
Workers == 1..NumWorkers

\* ------------------------------------------------------- python values
\* The value time.time() returns (one clock reading stands for all).
Now == 1

EmptyDict == [k \in {} |-> 0]

\* The `extra` argument of log_request: None, a dict, or a mapping that
\* supports neither item assignment nor pop (types.MappingProxyType, ...).
NoneArg == [tag |-> "None", items |-> EmptyDict]
DictArg(d) == [tag |-> "dict", items |-> d]
ReadOnlyArg(d) == [tag |-> "readonly", items |-> d]

\* The `extra` arguments the producers of the model pass.
ExtraInputs ==
    { NoneArg,
      DictArg([level |-> "error"]),
      ReadOnlyArg([level |-> "error"]) }

\* A slot holding no record (a worker between two get calls).
NoRecord == [message |-> 0, level |-> "", extra |-> EmptyDict]

\* str.lower() on the level strings of the model.
Lower(s) ==
    CASE s = "INFO" -> "info"
      [] s = "ERROR" -> "error"
      [] s = "DEBUG" -> "debug"
      [] s = "WARNING" -> "warning"
      [] s = "CRITICAL" -> "critical"
      [] OTHER -> s

VARIABLES
    log_queue,     \* queue.Queue(): the items, head first
    unfinished,    \* queue.Queue.unfinished_tasks
    should_stop,   \* threading.Event: is it set
    wpc,           \* each worker thread's position in log_worker
    wrec,          \* the record a worker holds between get and dispatch
    sink,          \* the calls logging.getLogger("async_logger") received
    stderr,        \* what was written to sys.stderr
    spc,           \* position of the caller of stop_async_logging
    lr_outcome,    \* how the last log_request call ended
    enq,           \* history: the entries put on the queue, in put order
    preStop,       \* history: number of entries put before should_stop.set()
    faulted,       \* history: the messages whose dispatch raised, in order
    restart        \* history: see setup_async_logging

\* The state of the logging pipeline.
pipeline == << log_queue, unfinished, should_stop, wpc, wrec, sink, stderr,
               spc, lr_outcome, enq, preStop, faulted, restart >>

\* src/api/techniques/pagination.py: the posts table and one caller of
\* paginate_results.
VARIABLES
    posts,         \* the posts table, newest created_at first: published flags
    pg_call,       \* the arguments of the last paginate_results call
    pg_query,      \* the parameters of the fetch_all of that call
    pg_result      \* the dict that call returned

pagination == << posts, pg_call, pg_query, pg_result >>

\* src/api/app.py, get_posts_with_caching: the Redis key it uses, the posts
\* table it queries and the requests being served.
VARIABLES
    redis_client,  \* the key "all_posts" in Redis: no entry, or one with a ttl
    database,      \* the number of rows of the posts table
    handlers       \* each request: position, cache argument, locals, calls made

endpoint == << redis_client, database, handlers >>

\* src/benchmarks/benchmark.py, benchmark_url: one call.
VARIABLES
    bench_args,    \* the num_requests and concurrency arguments
    semaphore,     \* asyncio.Semaphore(concurrency): its value
    tasks,         \* each make_request coroutine: position, response status
    responses,     \* result.responses
    origin,        \* history: the task that added each response
    bench_returned \* has benchmark_url returned

benchmark == << bench_args, semaphore, tasks, responses, origin,
               bench_returned >>

\* src/api/techniques/async_logging.py again, with the dicts as the objects
\* they are: log_request puts on the queue a reference to the dict it was
\* given, and its caller keeps that reference.
VARIABLES
    heap,          \* the dict objects: what each holds now
    ref_queue,     \* log_queue: the items, whose "extra" is a reference
    submitted,     \* history: each call's argument and the entry as it was put
    ref_sink,      \* the calls the logger received
    ref_stderr     \* what was written to sys.stderr

submission == << heap, ref_queue, submitted, ref_sink, ref_stderr >>

\* src/api/techniques/pagination.py, cursor_based_pagination: a table of posts
\* with ids and one client that follows next_cursor from the first page on.
VARIABLES
    id_table,      \* the posts table: for each id in it, the published flag
    cur_size,      \* the size argument of the traversal
    cur_cursor,    \* the cursor argument of the next call (None at first)
    cur_items,     \* the items of the last page returned
    cur_seen,      \* history: the ids returned so far, in order
    cur_done       \* the last call returned next_cursor None

traversal == << id_table, cur_size, cur_cursor, cur_items, cur_seen, cur_done >>

\* src/api/techniques/compression.py, compress_response: one call.
VARIABLES
    cmp_size,      \* len(orjson.dumps(data)), the size of the payload
    cmp_brotli,    \* what brotli.compress does with it: raise, or a size
    cmp_response   \* the response returned (NoCall before the call)

compression == << cmp_size, cmp_brotli, cmp_response >>

\* src/api/techniques/avoid_n_plus_1.py: the posts and comments tables and the
\* results of get_posts_with_comments and get_posts_with_comments_optimized.
VARIABLES
    np_posts,      \* the posts table, in scan order: published flags; id = rank
    np_comments,   \* the comments table, in scan order: post_id; id = rank
    np_naive,      \* what get_posts_with_comments returned (NoCall before)
    np_optimized   \* what get_posts_with_comments_optimized returned

nplus1 == << np_posts, np_comments, np_naive, np_optimized >>

\* src/api/techniques/connection_pool.py: async_database and the coroutines
\* calling get_async_db, connect_database and disconnect_database.
VARIABLES
    is_connected,  \* async_database.is_connected
    connects,      \* history: connect() invocations since the last disconnect
    callers        \* each coroutine: the function it runs and its position

pool == << is_connected, connects, callers >>

\* src/api/techniques/async_logging.py: the records that reach the queue
\* through AsyncLogHandler.
VARIABLES
    hd_level,      \* effective level of logging.getLogger("async_logger")
    hd_queue,      \* log_queue: the entries AsyncLogHandler.emit put
    hd_emitted,    \* history: the entries emit put, in put order
    hd_outcome,    \* how the last emit call ended
    hd_sink,       \* the logger calls that returned
    hd_stderr      \* what the worker wrote to sys.stderr

handler == << hd_level, hd_queue, hd_emitted, hd_outcome, hd_sink, hd_stderr >>

vars == << pipeline, pagination, endpoint, benchmark, submission,
           traversal, compression, nplus1, pool, handler >>

\* What each part of the program leaves alone.
besidePipeline ==
    << pagination, endpoint, benchmark, submission,
       traversal, compression, nplus1, pool, handler >>
besidePagination ==
    << pipeline, endpoint, benchmark, submission,
       traversal, compression, nplus1, pool, handler >>
besideEndpoint ==
    << pagination, benchmark, submission, traversal,
       compression, nplus1, pool, handler >>
besideBenchmark ==
    << pipeline, pagination, endpoint, submission,
       traversal, compression, nplus1, pool, handler >>
besideSubmission ==
    << pipeline, pagination, endpoint, benchmark,
       traversal, compression, nplus1, pool, handler >>
besideTraversal ==
    << pipeline, pagination, endpoint, benchmark,
       submission, compression, nplus1, pool, handler >>
besideCompression ==
    << pipeline, pagination, endpoint, benchmark,
       submission, traversal, nplus1, pool, handler >>
besideNPlus1 ==
    << pipeline, pagination, endpoint, benchmark,
       submission, traversal, compression, pool, handler >>
besidePool ==
    << pipeline, pagination, endpoint, benchmark,
       submission, traversal, compression, nplus1, handler >>
besideHandler ==
    << pipeline, pagination, endpoint, benchmark,
       submission, traversal, compression, nplus1, pool >>

\* No call made: the value of pg_call, pg_query and pg_result before any.
NoCall == << >>

\* Number of requests to /techniques/caching.
NumHandlers == 2
Handlers == 1..NumHandlers

\* None, as a value that may also be a string: the empty tuple, a string s
\* being << s >>.
None == << >>
Some(s) == << s >>

\* A request that has not arrived.
NoRequest == [pc |-> "idle", cache |-> FALSE, cached_data |-> None,
              posts |-> << >>, calls |-> << >>, response |-> << >>]

\* The endpoint's state when no request was ever made.
EndpointIdle ==
    /\ redis_client = None
    /\ database = 0
    /\ handlers = [h \in Handlers |-> NoRequest]

\* Number of dict objects the callers of log_request own.
NumDicts == 2
\* Number of log_request calls on those objects.
MaxCalls == 2
\* The callers' dicts, and the dicts log_request creates for a None argument
\* (line 79), one for each call.
CallerDicts == 1..NumDicts
FreshDicts == (NumDicts + 1)..(NumDicts + MaxCalls)

\* No log_request call is made with a dict object of the callers.
SubmissionIdle ==
    /\ heap = [r \in CallerDicts \cup FreshDicts |-> EmptyDict]
    /\ ref_queue = << >>
    /\ submitted = << >>
    /\ ref_sink = << >>
    /\ ref_stderr = << >>

\* Largest num_requests argument of benchmark_url.
MaxRequests == 3
Requests == 1..MaxRequests

\* benchmark_url was not called.
BenchmarkIdle ==
    /\ bench_args = [num_requests |-> 0, concurrency |-> 0]
    /\ semaphore = 0
    /\ tasks = [t \in Requests |-> [pc |-> "none", status |-> 0]]
    /\ responses = << >>
    /\ origin = << >>
    /\ bench_returned = FALSE

\* The pagination state of a process that never calls paginate_results.
PaginationIdle ==
    /\ posts = << >>
    /\ pg_call = NoCall
    /\ pg_query = NoCall
    /\ pg_result = NoCall

\* No client traverses the posts by cursor.
TraversalIdle ==
    /\ id_table = << >>
    /\ cur_size = 0
    /\ cur_cursor = None
    /\ cur_items = << >>
    /\ cur_seen = << >>
    /\ cur_done = FALSE

\* compress_response is not called.
CompressionIdle ==
    /\ cmp_size = 0
    /\ cmp_brotli = [raises |-> FALSE, size |-> 0]
    /\ cmp_response = NoCall

\* Neither function is called.
NPlus1Idle ==
    /\ np_posts = << >>
    /\ np_comments = << >>
    /\ np_naive = NoCall
    /\ np_optimized = NoCall

\* Number of coroutines calling get_async_db or connect_database.
NumCallers == 3
Callers == 1..NumCallers

\* A coroutine that has not called yet.
NoCaller == [pc |-> "idle", fn |-> "", got_connected |-> FALSE]

\* Module import, line 42: the database is not connected; no call made.
PoolIdle ==
    /\ is_connected = FALSE
    /\ connects = 0
    /\ callers = [c \in Callers |-> NoCaller]

\* No record went through an AsyncLogHandler.
HandlerIdle ==
    /\ hd_level = "INFO"
    /\ hd_queue = << >>
    /\ hd_emitted = << >>
    /\ hd_outcome = "returned"
    /\ hd_sink = << >>
    /\ hd_stderr = << >>

\* Number of entries put on the queue so far.
nput == Len(enq)

\* ------------------------------------------------------------ log_request
\* Line 78-79: None becomes a fresh dict.
ExtraOrEmpty(extra) == IF extra.tag = "None" THEN DictArg(EmptyDict) ELSE extra

\* Lines 82-86 raise (TypeError on item assignment, AttributeError on pop)
\* when the mapping cannot be updated.
SubmissionRaises(extra) == ExtraOrEmpty(extra).tag = "readonly"

\* Variant: the timestamp is set whether or not the key is there.
AlwaysStamped(d) == [k \in DOMAIN d \cup {"timestamp"} |-> IF k = "timestamp" THEN Now ELSE d[k]]

\* Lines 82-83: add the timestamp when the key is absent.
WithTimestamp(d) ==
    IF "timestamp" \in DOMAIN d THEN d ELSE d @@ ("timestamp" :> Now)

\* Line 86: extra.pop("level", "info"), the value returned.
PoppedLevel(d) == IF "level" \in DOMAIN d THEN d["level"] ELSE "info"

\* Variant: extra.get("level", "info"), which leaves the key in place.
LevelLeftInPlace(d) == d

\* Line 86: extra.pop("level", "info"), the mapping left behind.
WithoutLevel(d) == [k \in DOMAIN d \ {"level"} |-> d[k]]

\* Lines 89-93: the dict put on the queue.
BuildEntry(message, extra) ==
    LET d == WithTimestamp(ExtraOrEmpty(extra).items)
    IN  [message |-> message, level |-> PoppedLevel(d), extra |-> WithoutLevel(d)]

\* Variant: a queue created with maxsize=2, whose put waits when full.
QueueFullAtTwo(q) == Len(q) >= 2

\* queue.Queue() has maxsize 0: put never finds the queue full.
QueueFull(q) == FALSE

\* Variant: a LIFO queue, whose put places the item at the head.
QueuePutFront(q, item) == << item >> \o q

\* queue.Queue.put: append the item and count it as unfinished.
QueuePut(q, item) == Append(q, item)

\* Lines 78-86 raise: the exception reaches the caller, nothing is put.
LogRequestRaises(extra) ==
    /\ SubmissionRaises(extra)
    /\ lr_outcome' = "raised"
    /\ UNCHANGED << log_queue, unfinished, should_stop, wpc, wrec, sink,
                    stderr, spc, enq, preStop, faulted, restart, besidePipeline >>

\* Lines 78-93: the entry is built and put; the call returns.
LogRequestPuts(extra) ==
    /\ ~SubmissionRaises(extra)
    /\ nput < MaxEntries
    /\ ~QueueFull(log_queue)
    /\ log_queue' = QueuePut(log_queue, BuildEntry(nput + 1, extra))
    /\ unfinished' = unfinished + 1
    /\ enq' = Append(enq, BuildEntry(nput + 1, extra))
    /\ preStop' = IF should_stop THEN preStop ELSE preStop + 1
    /\ lr_outcome' = "returned"
    /\ UNCHANGED << should_stop, wpc, wrec, sink, stderr, spc, faulted, restart, besidePipeline >>

\* The message of the call is its rank among the calls that put an entry, so
\* that the entries of a run are told apart.
log_request(extra) == LogRequestRaises(extra) \/ LogRequestPuts(extra)

\* ---------------------------------------------------- setup_async_logging
Started == { w \in Workers : wpc[w] # "unstarted" }
Live == { w \in Workers : wpc[w] \notin {"unstarted", "done"} }

\* Lines 132-133: threading.Thread(target=log_worker, daemon=True).start().
StartWorker(pcs, w) == [pcs EXCEPT ![w] = "check"]

\* Lines 95-138: nothing but lines 132-133 touches the pipeline's state; no
\* line looks at an earlier thread or clears should_stop. The history variable
\* restart names the worker started by a call made after a stop call returned
\* and every earlier worker ended; it is reset by the next stop call.
setup_async_logging ==
    \E w \in Workers :
        /\ wpc[w] = "unstarted"
        /\ \A v \in Workers : v < w => wpc[v] # "unstarted"
        /\ wpc' = StartWorker(wpc, w)
        /\ restart' = IF should_stop /\ spc = "idle" /\ Started # {} /\ Live = {}
                      THEN w ELSE restart
        /\ UNCHANGED << log_queue, unfinished, should_stop, wrec, sink, stderr,
                        spc, lr_outcome, enq, preStop, faulted, besidePipeline >>

\* ------------------------------------------------------------- log_worker
\* Variant: a loop that looks at the event alone (while not is_set()).
LoopStopsAtOnce(stop, q) == ~stop

\* Line 35: does the loop go on, given the event and the queue.
LoopContinues(stop, q) == ~stop \/ q # << >>

\* Line 35: while not should_stop.is_set() or not log_queue.empty(). The two
\* reads are one step: the event is never cleared, so an is_set() that
\* returned True still holds when empty() is read.
WorkerCheck(w) ==
    /\ wpc[w] = "check"
    /\ wpc' = [wpc EXCEPT ![w] =
                  IF LoopContinues(should_stop, log_queue) THEN "get" ELSE "done"]
    /\ UNCHANGED << log_queue, unfinished, should_stop, wrec, sink, stderr,
                    spc, lr_outcome, enq, preStop, faulted, restart, besidePipeline >>

\* queue.Queue.get: the item removed.
QueueGet(q) == Head(q)

\* Variant: a get that reads the head and leaves it in the queue.
QueueKeepsHead(q) == q

\* queue.Queue.get: the items left.
QueueRest(q) == Tail(q)

\* Line 38: log_queue.get(timeout=0.5) returns the head of a non-empty queue.
WorkerGet(w) ==
    /\ wpc[w] = "get"
    /\ log_queue # << >>
    /\ wrec' = [wrec EXCEPT ![w] = QueueGet(log_queue)]
    /\ log_queue' = QueueRest(log_queue)
    /\ wpc' = [wpc EXCEPT ![w] = "dispatch"]
    /\ UNCHANGED << unfinished, should_stop, sink, stderr, spc, lr_outcome,
                    enq, preStop, faulted, restart, besidePipeline >>

\* Variant: log_queue.get() without a timeout, which waits for an item.
GetNeverTimesOut(q) == FALSE

\* Line 38: get(timeout=0.5) raises queue.Empty when no item arrives in time.
GetTimesOut(q) == q = << >>

\* Variant: no except queue.Empty clause, the exception ends the thread.
TimeoutEndsThread(pcs, w) == [pcs EXCEPT ![w] = "done"]

\* Lines 62-64: continue, that is line 35 again.
AfterTimeout(pcs, w) == [pcs EXCEPT ![w] = "check"]

\* Lines 38, 62-64: the wait times out on an empty queue; back to line 35.
WorkerTimeout(w) ==
    /\ wpc[w] = "get"
    /\ GetTimesOut(log_queue)
    /\ wpc' = AfterTimeout(wpc, w)
    /\ UNCHANGED << log_queue, unfinished, should_stop, wrec, sink, stderr,
                    spc, lr_outcome, enq, preStop, faulted, restart, besidePipeline >>

\* Lines 41, 45-57: the logger method the record is dispatched on.
Channel(level) ==
    LET l == Lower(level)
    IN  IF l \in {"debug", "info", "warning", "error", "critical"} THEN l ELSE "info"

\* Lines 41-57: the call the sink receives.
SinkCall(record) ==
    [channel |-> Channel(record.level), message |-> record.message,
     extra |-> record.extra]

\* The text of the exception a failing logger call raises.
SinkError == "sink error"

\* Line 67: the text written to stderr for an exception whose str() is e.
ErrorReport(e) == << "Error in logging thread: ", e >>

\* Variant: an except clause that swallows the exception (pass).
StderrUntouched(err, e) == err

\* Lines 67-68: sys.stderr.write of the report, and flush.
StderrWrite(err, e) == Append(err, ErrorReport(e))

\* Line 60: log_queue.task_done() after a logger call that returned.
TaskDone(n) == n - 1

\* Variant: task_done in a finally clause, called after a fault as well.
TaskDoneAlways(n) == n - 1

\* Lines 65-68: the except clause does not call task_done.
TaskDoneOnFault(n) == n

\* Variant: no except clause, the exception ends the thread.
FaultEndsThread(pcs, w) == [pcs EXCEPT ![w] = "done"]

\* Lines 65-68: where the worker goes after the except clause (line 35).
AfterFault(pcs, w) == [pcs EXCEPT ![w] = "check"]

\* Lines 41-60: the logger call returns; task_done; back to line 35.
WorkerDispatch(w) ==
    /\ wpc[w] = "dispatch"
    /\ sink' = Append(sink, SinkCall(wrec[w]))
    /\ unfinished' = TaskDone(unfinished)
    /\ wrec' = [wrec EXCEPT ![w] = NoRecord]
    /\ wpc' = [wpc EXCEPT ![w] = "check"]
    /\ UNCHANGED << log_queue, should_stop, stderr, spc, lr_outcome, enq,
                    preStop, faulted, restart, besidePipeline >>

\* Lines 41-57, 65-68: the logger call raises; the except clause reports the
\* exception on stderr; line 60 is skipped; back to line 35.
WorkerFault(w) ==
    /\ wpc[w] = "dispatch"
    /\ stderr' = StderrWrite(stderr, SinkError)
    /\ faulted' = Append(faulted, wrec[w].message)
    /\ unfinished' = TaskDoneOnFault(unfinished)
    /\ wrec' = [wrec EXCEPT ![w] = NoRecord]
    /\ wpc' = AfterFault(wpc, w)
    /\ UNCHANGED << log_queue, should_stop, sink, spc, lr_outcome, enq,
                    preStop, restart, besidePipeline >>

WorkerStep(w) ==
    \/ WorkerCheck(w)
    \/ WorkerGet(w)
    \/ WorkerTimeout(w)
    \/ WorkerDispatch(w)
    \/ WorkerFault(w)

\* ----------------------------------------------------- stop_async_logging
\* Line 145: should_stop.set().
StopSet ==
    /\ spc = "idle"
    /\ should_stop' = TRUE
    /\ restart' = 0
    /\ spc' = "check_empty"
    /\ UNCHANGED << log_queue, unfinished, wpc, wrec, sink, stderr, lr_outcome,
                    enq, preStop, faulted, besidePipeline >>

\* Line 148: join is called only when the queue is seen non-empty.
SkipJoin(q) == q = << >>

\* Line 148: if not log_queue.empty(); an empty queue ends the call.
StopCheckEmpty ==
    /\ spc = "check_empty"
    /\ spc' = IF SkipJoin(log_queue) THEN "idle" ELSE "join"
    /\ UNCHANGED << log_queue, unfinished, should_stop, wpc, wrec, sink, stderr,
                    lr_outcome, enq, preStop, faulted, restart, besidePipeline >>

\* Variant: a join that does not wait.
JoinReturnsAtOnce(n) == TRUE

\* queue.Queue.join: waits while unfinished_tasks is not zero.
JoinReturns(n) == n = 0

\* Line 149: log_queue.join() returns; the call ends.
StopJoin ==
    /\ spc = "join"
    /\ JoinReturns(unfinished)
    /\ spc' = "idle"
    /\ UNCHANGED << log_queue, unfinished, should_stop, wpc, wrec, sink, stderr,
                    lr_outcome, enq, preStop, faulted, restart, besidePipeline >>

StopStep == StopSet \/ StopCheckEmpty \/ StopJoin

\* ---------------------------------------------------------- specification
\* Module import: lines 20 and 23; no thread started, nothing logged.
\* (The state of the pipeline in a process that only imports the module.)
PipelineInit ==
    /\ log_queue = << >>
    /\ unfinished = 0
    /\ should_stop = FALSE
    /\ wpc = [w \in Workers |-> "unstarted"]
    /\ wrec = [w \in Workers |-> NoRecord]
    /\ sink = << >>
    /\ stderr = << >>
    /\ spc = "idle"
    /\ lr_outcome = "returned"
    /\ enq = << >>
    /\ preStop = 0
    /\ faulted = << >>
    /\ restart = 0

Init == PipelineInit /\ PaginationIdle /\ EndpointIdle /\ BenchmarkIdle /\ SubmissionIdle
    /\ TraversalIdle /\ CompressionIdle /\ NPlus1Idle /\ PoolIdle
    /\ HandlerIdle

Next ==
    \/ \E extra \in ExtraInputs : log_request(extra)
    \/ setup_async_logging
    \/ \E w \in Workers : WorkerStep(w)
    \/ StopStep

Spec == Init /\ [][Next]_vars

\* The pipeline under fair scheduling: a thread that can take a step is
\* eventually scheduled (every worker thread and the thread inside
\* stop_async_logging); the callers of log_request, setup_async_logging and
\* stop_async_logging are free to call or not. Progress does not depend on
\* what an entry holds, so the producers here pass no `extra`.
FairNext ==
    \/ LogRequestPuts(NoneArg)
    \/ setup_async_logging
    \/ \E w \in Workers : WorkerStep(w)
    \/ StopStep

FairSpec ==
    /\ Init
    /\ [][FairNext]_vars
    /\ \A w \in Workers : WF_vars(WorkerStep(w))
    /\ WF_vars(StopCheckEmpty \/ StopJoin)

\* ------------------------------------------------------------ properties
\* The messages the sink received, those whose dispatch raised, those queued.
Delivered == { sink[i].message : i \in DOMAIN sink }
Faulted == { faulted[i] : i \in DOMAIN faulted }
Queued == { log_queue[i].message : i \in DOMAIN log_queue }
Held == { wrec[w].message : w \in { v \in Workers : wpc[v] = "dispatch" } }

\* A step in which stop_async_logging returns to its caller.
StopReturns == spc # "idle" /\ spc' = "idle"

\* C1 (as claimed): with one worker started, no dispatch fault and every entry
\* submitted before the stop call, the sink holds exactly the submitted
\* entries at the moment stop_async_logging returns.
C1_DrainOnStop ==
    [][ (StopReturns /\ Cardinality(Started) = 1 /\ faulted = << >>
         /\ preStop = nput)
        => (Len(sink') = nput /\ Delivered' = 1..nput) ]_vars

\* C2 (as claimed): a stop_async_logging call that has begun always
\* eventually returns.
C2_StopEventuallyReturns == (spc # "idle") ~> (spc = "idle")

\* C3 (as claimed): when stop_async_logging returns, the queue is empty and
\* no worker thread is still running.
C3_StopWaitsForWorker ==
    [][ StopReturns => (log_queue' = << >> /\ Live' = {}) ]_vars

\* C3 (amended): when stop_async_logging returns, the stop flag is set and
\* the queue was observed empty in that step; nothing is said of the worker.
C3_StopReturnsOnEmptyQueue ==
    [][ StopReturns => (log_queue' = << >> /\ should_stop') ]_vars

\* C3 witness: stop has returned after entries went through the queue, and a
\* worker thread is still running.
C3_Witness ==
    /\ should_stop /\ spc = "idle" /\ log_queue = << >>
    /\ nput >= 2 /\ Len(sink) >= 1 /\ Live # {}

\* The calls the sink receives when the entries of e are dispatched in order,
\* leaving out those whose dispatch raised.
ExpectedSink(e) ==
    LET ok == SelectSeq(e, LAMBDA x : x.message \notin Faulted)
    IN  [i \in DOMAIN ok |-> SinkCall(ok[i])]

\* C4: with a single worker, the sink receives the entries in the global
\* order of their put calls: the sink's calls are, in order, the calls for the
\* first entries put (those whose dispatch raised left out).
C4_FifoDispatch ==
    Cardinality(Started) <= 1 =>
        /\ Len(sink) <= Len(ExpectedSink(enq))
        /\ sink = SubSeq(ExpectedSink(enq), 1, Len(sink))

\* C4 witness: one worker dispatched three entries, info, error, then info.
C4_Witness ==
    /\ Cardinality(Started) = 1 /\ Len(sink) = 3
    /\ sink[1].channel = "info" /\ sink[2].channel = "error"
    /\ sink[3].channel = "info"

\* C5: a worker that has terminated leaves no entry in the queue that was put
\* before the stop flag was set: each such entry was handed to the sink (the
\* call returned or raised) or is in the hands of another running worker.
C5_PreStopDelivered ==
    \A w \in Workers :
        wpc[w] = "done" =>
            \A k \in 1..preStop :
                /\ k \notin Queued
                /\ k \in Delivered \cup Faulted \cup Held

\* C5 witness: the only worker terminated after three entries were put before
\* the stop flag was set, and all three reached the sink.
C5_Witness ==
    /\ Started = {1} /\ wpc[1] = "done" /\ preStop = 3 /\ Len(sink) = 3

\* C6: whichever dispatches raise, each one is reported on stderr and every
\* entry that is in the queue while a worker thread runs is eventually handed
\* to the sink: a dispatch that raised neither ends the worker nor loses an
\* entry queued before or after it.
C6_FaultIsolation ==
    /\ [](Len(stderr) = Len(faulted))
    /\ \A k \in 1..MaxEntries :
           (k \in Queued /\ Live # {}) ~> (k \in Delivered \cup Faulted)

\* C6 witness: the dispatch of the second of three entries raised; the first
\* and the third reached the sink.
C6_Witness ==
    /\ faulted = << 2 >> /\ Len(stderr) = 1 /\ Delivered = {1, 3}

\* C7: log_request can complete in every state: whatever the workers, the
\* sink, the length of the queue and the stop flag, a call whose argument can
\* be updated is enabled.
C7_SubmissionNeverBlocks ==
    \A extra \in ExtraInputs :
        (~SubmissionRaises(extra) /\ nput < MaxEntries)
            => ENABLED log_request(extra)

\* C7 witness: a call returned while the stop flag was set, a worker was
\* inside a dispatch and an earlier entry was still queued.
C7_Witness ==
    /\ lr_outcome = "returned" /\ should_stop /\ Len(log_queue) >= 1
    /\ \E w \in Workers : wpc[w] = "dispatch"

\* C8 (as claimed): no log_request call ends by raising to its caller.
C8_SubmissionNeverRaises == lr_outcome # "raised"

\* C9 (as claimed): at most one worker thread consumes from the queue.
C9_SingleConsumer == Cardinality(Live) <= 1

\* C10 (as claimed): a worker started by a setup call made after stop returned
\* and the earlier workers ended keeps running while stop is not called again.
C10_RestartKeepsRunning == restart # 0 => wpc[restart] # "done"

\* A step in which worker w leaves the loop of log_worker.
WorkerExits(w) == wpc[w] # "done" /\ wpc'[w] = "done"

\* C18: a worker leaves its loop only in a step in which the stop flag is set
\* and the queue is empty; whatever timeouts and dispatch faults came before,
\* no worker has terminated while the flag is unset.
C18_ExitOnlyOnStopAndEmpty ==
    [][ \A w \in Workers :
            /\ WorkerExits(w) => (should_stop /\ log_queue = << >>)
            /\ wpc'[w] = "done" => should_stop' ]_vars

\* C18 witness: a worker terminated after a dispatch of its own raised and
\* another one returned.
C18_Witness ==
    /\ Started = {1} /\ wpc[1] = "done" /\ should_stop
    /\ faulted # << >> /\ sink # << >>

\* C19: under fair scheduling a running worker terminates once the stop flag
\* is set (the producers of the model submit finitely often), also when it
\* waits on an empty queue at that moment.
C19_WorkerTerminates ==
    \A w \in Workers : (should_stop /\ w \in Live) ~> (wpc[w] = "done")

\* C19 witness: the stop flag has just been set while the only worker waits
\* in get on an empty queue.
C19_Witness ==
    /\ should_stop /\ spc = "check_empty" /\ Started = {1}
    /\ wpc[1] = "get" /\ log_queue = << >>

\* Does the stderr report r hold the text x.
ReportHolds(r, x) == \E i \in DOMAIN r : r[i] = x

\* C20 (as claimed): each dispatch that raised has one report on stderr, and
\* the report holds the message and the level of the entry.
C20_ReportCarriesEntry ==
    /\ Len(stderr) = Len(faulted)
    /\ \A i \in DOMAIN faulted :
           /\ ReportHolds(stderr[i], ToString(enq[faulted[i]].message))
           /\ ReportHolds(stderr[i], enq[faulted[i]].level)

\* C20 (amended): each dispatch that raised has exactly one report on stderr,
\* and the report is the prefix "Error in logging thread: " followed by the
\* text of the exception; it holds nothing of the entry.
C20_OneReportPerFault ==
    /\ Len(stderr) = Len(faulted)
    /\ \A i, j \in DOMAIN faulted : faulted[i] = faulted[j] => i = j
    /\ \A i \in DOMAIN stderr :
           stderr[i] = << "Error in logging thread: ", "sink error" >>

\* C20 witness: two dispatches raised, two reports are on stderr.
C20_Witness == Len(faulted) = 2 /\ Len(stderr) = 2

\* How many of the places an entry can be in hold the entry with message k:
\* the queue, a worker between get and the end of its dispatch, the sink's
\* calls, the dispatches that raised.
Copies(k) ==
    Cardinality({ i \in DOMAIN log_queue : log_queue[i].message = k })
    + Cardinality({ w \in Workers : wrec[w].message = k })
    + Cardinality({ i \in DOMAIN sink : sink[i].message = k })
    + Cardinality({ i \in DOMAIN faulted : faulted[i] = k })

\* C21: every entry that was put is in exactly one place: still queued, held
\* by one worker, handed to the sink once, or faulted once. Hence no entry
\* reaches the sink twice, and an entry whose dispatch raised is neither in the
\* queue again nor dispatched again.
C21_AtMostOnce ==
    /\ \A k \in 1..nput : Copies(k) = 1
    /\ \A i \in DOMAIN faulted :
           /\ faulted[i] \notin Queued \cup Held \cup Delivered
           /\ \A j \in DOMAIN faulted : faulted[i] = faulted[j] => i = j
    /\ \A i, j \in DOMAIN sink : sink[i].message = sink[j].message => i = j

\* C21 witness: two workers ran; the dispatch of the first entry raised, the
\* two entries put after it reached the sink, and the queue is empty.
C21_Witness ==
    /\ Cardinality(Started) = 2 /\ faulted = << 1 >> /\ Delivered = {2, 3}
    /\ log_queue = << >> /\ Held = {}

\* C26: the unfinished-task count is the number of entries put less the
\* number of dispatches that returned: a dispatch that raised and a timed-out
\* get leave it alone. Hence, while the join of stop_async_logging can return
\* (the count is zero), every entry put so far has been handed to the sink and
\* no dispatch has raised.
C26_JoinAccounting ==
    /\ unfinished = nput - Len(sink)
    /\ unfinished = Cardinality(Queued \cup Held) + Len(faulted)
    /\ JoinReturns(unfinished) =>
           /\ Delivered = 1..nput
           /\ faulted = << >> /\ log_queue = << >> /\ Held = {}

\* C26 witness: the stop call waits in join with the queue empty and the
\* worker idle, because the dispatch of one of three entries raised.
C26_Witness ==
    /\ spc = "join" /\ unfinished = 1 /\ Len(faulted) = 1 /\ Len(sink) = 2
    /\ log_queue = << >> /\ Held = {}

\* Every worker thread that was started has left its loop.
Terminated == Started # {} /\ Live = {}

\* Is q the sequence p with entries appended.
Extends(q, p) == Len(q) >= Len(p) /\ SubSeq(q, 1, Len(p)) = p

\* The second half of C27 alone: between two states in which no worker runs
\* the sink receives nothing and the queue only grows.
QueuedWhileNoWorker ==
    [][ (Terminated /\ Live' = {}) =>
            (sink' = sink /\ Extends(log_queue', log_queue)) ]_vars

\* C27 (as claimed): once every worker has terminated, a log_request call
\* returns to its caller without an exception and puts its entry at the end
\* of the queue; and while no worker runs the sink receives nothing and no
\* entry leaves the queue.
C27_SubmissionAfterShutdown ==
    [][ Terminated =>
            /\ \A extra \in ExtraInputs :
                   log_request(extra) =>
                       /\ lr_outcome' = "returned"
                       /\ log_queue' = Append(log_queue, BuildEntry(nput + 1, extra))
            /\ Live' = {} => (sink' = sink /\ Extends(log_queue', log_queue)) ]_vars

\* ================================================================ pagination
\* src/api/techniques/pagination.py, paginate_results.
\* Number of rows of the posts table.
MaxPosts == 4
\* Largest page argument.
MaxPage == 3
\* Largest size argument.
MaxSize == 3

\* The tables of the model: each row is its published flag, and a row is
\* named by its rank in created_at DESC order.
Tables == UNION { [1..n -> BOOLEAN] : n \in 0..MaxPosts }

\* WHERE published = TRUE ORDER BY created_at DESC: the ranks of the rows.
RECURSIVE PublishedFrom(_, _)
PublishedFrom(table, i) ==
    IF i > Len(table) THEN << >>
    ELSE (IF table[i] THEN << i >> ELSE << >>) \o PublishedFrom(table, i + 1)

PublishedRows(table) == PublishedFrom(table, 1)

\* Lines 15-27: SELECT COUNT(*) FROM posts WHERE published = TRUE.
count_total_posts(table) == Len(PublishedRows(table))

\* Variant: the offset of the page after the one asked for.
OffsetFromPage(page, size) == page * size

\* Line 48: offset = (page - 1) * size.
Offset(page, size) == (page - 1) * size

\* Line 52: math.ceil(total_items / size), for size > 0.
TotalPages(total_items, size) == (total_items + size - 1) \div size

\* Lines 68-71: the parameters bound to LIMIT :limit OFFSET :offset.
QueryParams(page, size) == [limit |-> size, offset |-> Offset(page, size)]

\* Lines 55-71: what the database returns for LIMIT limit OFFSET offset.
FetchPage(table, params) ==
    LET rows == PublishedRows(table)
        last == IF params.offset + params.limit < Len(rows)
                THEN params.offset + params.limit ELSE Len(rows)
    IN  SubSeq(rows, params.offset + 1, last)

\* Lines 110-111: a link is the pair of its page and size parameters; None is
\* the empty tuple.
PageLink(page, size) == << page, size >>
NoLink == << >>

\* Variant: a next link on every page up to and including the last.
NextPageUpToLast(page, size, total_pages) ==
    IF page <= total_pages THEN PageLink(page + 1, size) ELSE NoLink

\* Line 110: next_page.
NextPage(page, size, total_pages) ==
    IF page < total_pages THEN PageLink(page + 1, size) ELSE NoLink

\* Line 111: prev_page.
PrevPage(page, size) == IF page > 1 THEN PageLink(page - 1, size) ELSE NoLink

\* Lines 47-127 (include_comments False): the dict returned.
PaginateResults(table, page, size) ==
    LET total_items == count_total_posts(table)
        total_pages == TotalPages(total_items, size)
    IN  [items |-> FetchPage(table, QueryParams(page, size)),
         total |-> total_items,
         page |-> page,
         size |-> size,
         pages |-> total_pages,
         next_page |-> NextPage(page, size, total_pages),
         prev_page |-> PrevPage(page, size)]

\* One call of paginate_results(db, page, size) on the table as it is.
paginate_results(page, size) ==
    /\ pg_call' = [page |-> page, size |-> size]
    /\ pg_query' = QueryParams(page, size)
    /\ pg_result' = PaginateResults(posts, page, size)
    /\ UNCHANGED << posts, besidePagination >>

\* The table holds any rows; no call was made.
PaginationInit ==
    /\ posts \in Tables
    /\ pg_call = NoCall
    /\ pg_query = NoCall
    /\ pg_result = NoCall
    /\ PipelineInit /\ EndpointIdle /\ BenchmarkIdle /\ SubmissionIdle
    /\ TraversalIdle /\ CompressionIdle /\ NPlus1Idle /\ PoolIdle
    /\ HandlerIdle

\* The endpoint validates page >= 1 and size >= 1 (app.py lines 241-242).
PaginationNext ==
    \E page \in 1..MaxPage, size \in 1..MaxSize : paginate_results(page, size)

PaginationSpec == PaginationInit /\ [][PaginationNext]_vars

\* C16: for every page >= 1 and size >= 1, paginate_results reads the rows
\* from offset (page - 1) * size with limit size (the rows of that window of
\* the published posts, newest first) and reports as pages the least number
\* of pages of that size that hold all the published posts, ceil(total/size);
\* page 1/size 10 gives offset 0, page 2/size 10 gives 10, page 3/size 5
\* gives 10.
C16_OffsetAndPages ==
    /\ QueryParams(1, 10).offset = 0
    /\ QueryParams(2, 10).offset = 10
    /\ QueryParams(3, 5).offset = 10
    /\ pg_call # NoCall =>
         LET page == pg_call.page
             size == pg_call.size
             rows == PublishedRows(posts)
         IN  /\ pg_query.offset = (page - 1) * size
             /\ pg_query.limit = size
             /\ pg_result.total = Len(rows)
             /\ pg_result.pages * size >= pg_result.total
             /\ (pg_result.pages - 1) * size < pg_result.total
             /\ pg_result.pages >= 0
             /\ Len(pg_result.items) <= size
             /\ \A i \in DOMAIN pg_result.items :
                    pg_result.items[i] = rows[(page - 1) * size + i]
             /\ \A j \in DOMAIN rows :
                    (j > (page - 1) * size /\ j <= page * size)
                        => \E i \in DOMAIN pg_result.items : pg_result.items[i] = rows[j]

\* C16 witness: page 2 of size 2 over three published posts (and one that is
\* not): offset 2, two pages, the one remaining row returned.
C16_Witness ==
    /\ pg_call # NoCall
    /\ pg_call.page = 2 /\ pg_call.size = 2
    /\ pg_query.offset = 2
    /\ pg_result.total = 3 /\ Len(posts) = 4
    /\ pg_result.pages = 2
    /\ Len(pg_result.items) = 1

\* C30: paginate_results returns a next_page exactly when rows remain after
\* the page (page * size < total, that is page < ceil(total / size)), and it
\* points to page + 1 with the same size; it returns a prev_page exactly when
\* page > 1, pointing to page - 1; on the last page, beyond it, and on every
\* page of an empty result next_page is None.
C30_PageLinks ==
    pg_call # NoCall =>
        LET page == pg_call.page
            size == pg_call.size
            total == Len(PublishedRows(posts))
        IN  /\ pg_result.next_page # NoLink <=> page * size < total
            /\ pg_result.next_page # NoLink => pg_result.next_page = << page + 1, size >>
            /\ pg_result.prev_page # NoLink <=> page > 1
            /\ pg_result.prev_page # NoLink => pg_result.prev_page = << page - 1, size >>
            /\ total = 0 => pg_result.next_page = NoLink
            /\ page >= pg_result.pages => pg_result.next_page = NoLink

\* C30 witness: the last page (2 of 2) of three published posts: no next
\* link, a link back to page 1.
C30_Witness ==
    /\ pg_call # NoCall
    /\ pg_call.page = 2 /\ pg_call.size = 2
    /\ pg_result.total = 3 /\ pg_result.pages = 2
    /\ pg_result.next_page = NoLink
    /\ pg_result.prev_page = << 1, 2 >>

\* ========================================================= cursor traversal
\* src/api/techniques/pagination.py, cursor_based_pagination, called by a
\* client that starts without a cursor and passes each next_cursor it gets to
\* its next call, until it gets None. The table does not change meanwhile.
\* Largest post id.
MaxId == 4
\* Largest size argument of the traversal.
MaxCursorSize == 3

\* The tables of the model: any set of ids, each row published or not.
IdTables == UNION { [ids -> BOOLEAN] : ids \in SUBSET (1..MaxId) }

\* str(id), line 185.
Str(id) == ToString(id)

\* int(cursor), line 145.
IntOf(text) == CHOOSE id \in 1..MaxId : Str(id) = text

\* Variant: a query that keeps the row the cursor names (id <= :cursor).
NotAfterCursor(id, cursor_id) == id <= cursor_id

\* Line 157: id < :cursor.
BeforeCursor(id, cursor_id) == id < cursor_id

\* Lines 148-177: the ids the query selects: published rows, below the cursor
\* when one is given (`if cursor` is the truth of a string).
Selected(table, cursor) ==
    { id \in DOMAIN table :
        /\ table[id]
        /\ (cursor # None /\ cursor[1] # "") => BeforeCursor(id, IntOf(cursor[1])) }

\* ORDER BY id DESC LIMIT :limit.
RECURSIVE DescLimit(_, _)
DescLimit(ids, limit) ==
    IF ids = {} \/ limit <= 0 THEN << >>
    ELSE LET top == CHOOSE id \in ids : \A other \in ids : other <= id
         IN  << top >> \o DescLimit(ids \ {top}, limit - 1)

\* Lines 179-180: the posts of the page, each named by its id.
CursorPage(table, cursor, size) == DescLimit(Selected(table, cursor), size)

\* Lines 183-185: the cursor of the next page.
NextCursor(items, size) ==
    IF items # << >> /\ Len(items) = size THEN Some(Str(items[Len(items)])) ELSE None

\* Lines 129-190: one call, with the cursor the last call returned.
cursor_based_pagination ==
    /\ ~cur_done
    /\ LET items == CursorPage(id_table, cur_cursor, cur_size)
       IN  /\ cur_items' = items
           /\ cur_cursor' = NextCursor(items, cur_size)
           /\ cur_seen' = cur_seen \o items
           /\ cur_done' = (NextCursor(items, cur_size) = None)
    /\ UNCHANGED << id_table, cur_size, besideTraversal >>

\* Any table, any size >= 1, no call made.
TraversalInit ==
    /\ id_table \in IdTables
    /\ cur_size \in 1..MaxCursorSize
    /\ cur_cursor = None
    /\ cur_items = << >>
    /\ cur_seen = << >>
    /\ cur_done = FALSE
    /\ PipelineInit /\ PaginationIdle /\ EndpointIdle /\ BenchmarkIdle
    /\ SubmissionIdle /\ CompressionIdle /\ NPlus1Idle /\ PoolIdle
    /\ HandlerIdle

TraversalNext == cursor_based_pagination

\* The client goes on calling as long as it holds a cursor.
TraversalSpec ==
    /\ TraversalInit
    /\ [][TraversalNext]_vars
    /\ WF_vars(cursor_based_pagination)

\* The published ids of the table.
PublishedIds == { id \in DOMAIN id_table : id_table[id] }

\* Has the client made a call.
Called == cur_done \/ cur_cursor # None

\* C29: the traversal ends; when it has, every published post was returned
\* exactly once and the ids came in descending order; after each call the
\* next cursor is the id of the last item of the page exactly when the page
\* holds size items, and None otherwise.
C29_CursorTraversal ==
    /\ <>cur_done
    /\ [](cur_done =>
            /\ { cur_seen[i] : i \in DOMAIN cur_seen } = PublishedIds
            /\ Len(cur_seen) = Cardinality(PublishedIds))
    /\ [](\A i, j \in DOMAIN cur_seen : i < j => cur_seen[i] > cur_seen[j])
    /\ [](Called =>
            /\ Len(cur_items) = cur_size =>
                 cur_cursor = << ToString(cur_items[Len(cur_items)]) >>
            /\ Len(cur_items) # cur_size => cur_cursor = << >>)

\* C29 witness: four published posts traversed with size 2: two full pages,
\* then an empty one that ends the traversal.
C29_Witness ==
    /\ cur_done
    /\ cur_size = 2
    /\ cur_seen = << 4, 3, 2, 1 >>
    /\ cur_items = << >>

\* ========================================================= caching endpoint
\* src/api/app.py, get_posts_with_caching, with get_cache and set_cache of
\* src/api/techniques/caching.py. A step is what a request does between two
\* awaits; other requests, writers of the table and the expiry of the key
\* take their steps in between.
\* Number of rows the posts table can reach.
MaxRows == 2

\* app.py line 152: cache_key.
CacheKey == "all_posts"

\* app.py line 172: expiry=60.
CacheExpiry == 60

\* app.py line 164: LIMIT 20.
QueryLimit == 20

\* The lists of posts a query can return (a post is named by its rank).
PostLists == { [i \in 1..n |-> i] : n \in 0..MaxRows }

\* app.py lines 164-168: the rows fetch_all returns, as a list of dicts.
FetchAll(rows) == [i \in 1..(IF rows < QueryLimit THEN rows ELSE QueryLimit) |-> i]

\* orjson.dumps: the text of a list of posts.
Dumps(posts_list) == ToString(posts_list)

\* orjson.loads: the list of posts a text stands for.
Loads(text) == CHOOSE p \in PostLists : Dumps(p) = text

\* Python truth of `cached_data`: None and the empty string are false.
Truthy(cached_data) == cached_data # None /\ cached_data[1] # ""

\* Variant: a handler that ignores its cache argument.
AlwaysUsesCache(cache) == TRUE

\* app.py lines 155 and 171: if cache.
UsesCache(cache) == cache

\* The record of a call a request made: a cache read and what it returned, a
\* database query, or a cache write with its value and expiry.
CacheRead(returned) == [op |-> "get", key |-> CacheKey, value |-> returned, expiry |-> 0]
DbQuery == [op |-> "db", key |-> "", value |-> None, expiry |-> 0]
CacheWrite(text, expiry) == [op |-> "set", key |-> CacheKey, value |-> Some(text), expiry |-> expiry]

\* The message log_request is called with on line 153.
EndpointMessage == "Caching endpoint called"

\* app.py lines 152-155: the request arrives; log_request puts its entry on
\* the logging queue; the handler branches on cache.
HandlerStart(h, cache) ==
    /\ handlers[h].pc = "idle"
    /\ handlers' = [handlers EXCEPT ![h].pc = IF UsesCache(cache) THEN "get" ELSE "db",
                                    ![h].cache = cache]
    /\ LET entry == BuildEntry(EndpointMessage,
                               DictArg([cache_enabled |-> cache]))
       IN  /\ log_queue' = QueuePut(log_queue, entry)
           /\ enq' = Append(enq, entry)
    /\ unfinished' = unfinished + 1
    /\ preStop' = IF should_stop THEN preStop ELSE preStop + 1
    /\ lr_outcome' = "returned"
    /\ UNCHANGED << should_stop, wpc, wrec, sink, stderr, spc, faulted, restart,
                    redis_client, database, besideEndpoint >>

\* app.py lines 157-160 after get_cache returned `returned`: a true value is
\* parsed and returned, anything else leads to the query.
AfterGetCache(h, returned) ==
    /\ handlers' = [handlers EXCEPT
           ![h].cached_data = returned,
           ![h].calls = Append(@, CacheRead(returned)),
           ![h].pc = IF Truthy(returned) THEN "done" ELSE "db",
           ![h].response = IF Truthy(returned) THEN Loads(returned[1]) ELSE @]
    /\ UNCHANGED << redis_client, database, pipeline, besideEndpoint >>

\* caching.py lines 32-40: redis_client.get(key) returns the value, or None
\* when the key holds none.
GetCacheReturns(h) ==
    /\ handlers[h].pc = "get"
    /\ AfterGetCache(h, IF redis_client = None THEN None ELSE Some(redis_client[1].value))

\* caching.py lines 41-43: redis_client.get raises (Redis unreachable); the
\* error is logged and None returned.
GetCacheFails(h) ==
    /\ handlers[h].pc = "get"
    /\ AfterGetCache(h, None)

\* app.py lines 163-171: the database is queried; with cache off the rows are
\* the response.
QueryDatabase(h) ==
    /\ handlers[h].pc = "db"
    /\ handlers' = [handlers EXCEPT
           ![h].posts = FetchAll(database),
           ![h].calls = Append(@, DbQuery),
           ![h].pc = IF UsesCache(handlers[h].cache) THEN "set" ELSE "done",
           ![h].response = IF UsesCache(handlers[h].cache) THEN @ ELSE FetchAll(database)]
    /\ UNCHANGED << redis_client, database, pipeline, besideEndpoint >>

\* app.py lines 172-174 after set_cache returned: the rows are the response.
AfterSetCache(h) ==
    handlers' = [handlers EXCEPT
        ![h].calls = Append(@, CacheWrite(Dumps(handlers[h].posts), CacheExpiry)),
        ![h].pc = "done",
        ![h].response = handlers[h].posts]

\* caching.py lines 58-65: redis_client.setex(key, expiry, value) is accepted.
SetCacheStores(h) ==
    /\ handlers[h].pc = "set"
    /\ redis_client' = Some([value |-> Dumps(handlers[h].posts), ttl |-> CacheExpiry])
    /\ AfterSetCache(h)
    /\ UNCHANGED << database, pipeline, besideEndpoint >>

\* caching.py lines 66-68: setex raises; the error is logged, False returned.
SetCacheFails(h) ==
    /\ handlers[h].pc = "set"
    /\ AfterSetCache(h)
    /\ UNCHANGED << redis_client, database, pipeline, besideEndpoint >>

\* Redis drops the key when its ttl has run out.
KeyExpires ==
    /\ redis_client # None
    /\ redis_client' = None
    /\ UNCHANGED << database, handlers, pipeline, besideEndpoint >>

\* Another client inserts a post.
InsertPost ==
    /\ database < MaxRows
    /\ database' = database + 1
    /\ UNCHANGED << redis_client, handlers, pipeline, besideEndpoint >>

\* The application has started; no request yet, Redis holds no entry.
EndpointInit ==
    /\ redis_client = None
    /\ database \in 0..MaxRows
    /\ handlers = [h \in Handlers |-> NoRequest]
    /\ PipelineInit /\ PaginationIdle /\ BenchmarkIdle /\ SubmissionIdle
    /\ TraversalIdle /\ CompressionIdle /\ NPlus1Idle /\ PoolIdle
    /\ HandlerIdle

EndpointNext ==
    \/ \E h \in Handlers, cache \in BOOLEAN : HandlerStart(h, cache)
    \/ \E h \in Handlers : GetCacheReturns(h)
    \/ \E h \in Handlers : GetCacheFails(h)
    \/ \E h \in Handlers : QueryDatabase(h)
    \/ \E h \in Handlers : SetCacheStores(h)
    \/ \E h \in Handlers : SetCacheFails(h)
    \/ KeyExpires
    \/ InsertPost

EndpointSpec == EndpointInit /\ [][EndpointNext]_vars

\* s is an initial part of t.
IsPrefix(s, t) == Len(s) <= Len(t) /\ \A i \in DOMAIN s : s[i] = t[i]

\* C15: with cache=true the handler first reads the key; it queries the
\* database only after a read that returned no value, and then writes the
\* text of the rows it got under the same key with expiry 60; a read that
\* returned a value ends the request with that value parsed. With
\* cache=false the handler makes the database query and no other call. Every
\* entry the key holds has a ttl of 60.
C15_CachingEndpoint ==
    /\ \A h \in Handlers :
         LET r == handlers[h]
         IN  /\ (r.pc # "idle" /\ ~r.cache) =>
                   /\ IsPrefix(r.calls, << DbQuery >>)
                   /\ r.pc = "done" => r.calls = << DbQuery >>
             /\ (r.pc # "idle" /\ r.cache) =>
                   \/ /\ r.calls = << >>
                      /\ r.pc = "get"
                   \/ /\ Len(r.calls) = 1
                      /\ r.calls[1].op = "get" /\ r.calls[1].key = "all_posts"
                      /\ r.calls[1].value # None
                      /\ r.pc = "done"
                      /\ Dumps(r.response) = r.calls[1].value[1]
                   \/ /\ IsPrefix(r.calls, << CacheRead(None), DbQuery,
                                              CacheWrite(Dumps(r.posts), 60) >>)
                      /\ r.calls # << >>
                      /\ r.pc = "done" <=> Len(r.calls) = 3
                      /\ r.pc = "done" => r.response = r.posts
    /\ redis_client # None => redis_client[1].ttl = 60

\* C15 witness: one request was served from the cache, after another request
\* had missed, queried the database and stored the rows.
C15_Witness ==
    /\ handlers[1].pc = "done" /\ handlers[1].cache
    /\ Len(handlers[1].calls) = 3
    /\ handlers[2].pc = "done" /\ handlers[2].cache
    /\ Len(handlers[2].calls) = 1
    /\ handlers[2].response = << 1 >>

\* ================================================================ benchmark
\* src/benchmarks/benchmark.py, benchmark_url and BenchmarkResult. A step is
\* what a make_request coroutine does between two awaits.
\* Largest concurrency argument.
MaxConcurrency == 2

\* The HTTP statuses the server of the model answers with.
Statuses == {200, 500}

\* Line 180: response.status == 200.
IsSuccess(status) == status = 200

\* Lines 54-61: add_response (the elapsed time and the size are left out).
add_response(rs, status, success) == Append(rs, [status |-> status, success |-> success])

\* Lines 74-77: successful_requests.
successful_requests(rs) == Cardinality({ i \in DOMAIN rs : rs[i].success })

\* Lines 79-82: failed_requests.
failed_requests(rs) == Len(rs) - successful_requests(rs)

\* The coroutines created on line 194.
Scheduled == 1..bench_args.num_requests

\* Line 171: async with semaphore, entered when the value is positive; then
\* lines 173-176: the session is opened and the request sent.
Acquire(t) ==
    /\ tasks[t].pc = "pending"
    /\ semaphore > 0
    /\ semaphore' = semaphore - 1
    /\ tasks' = [tasks EXCEPT ![t].pc = "request"]
    /\ UNCHANGED << bench_args, responses, origin, bench_returned, besideBenchmark >>

\* Line 176: session.get(url) answers with a status.
ResponseArrives(t, status) ==
    /\ tasks[t].pc = "request"
    /\ tasks' = [tasks EXCEPT ![t].pc = "read", ![t].status = status]
    /\ UNCHANGED << bench_args, semaphore, responses, origin, bench_returned, besideBenchmark >>

\* Lines 189-191, then the end of `async with semaphore`: the except clause
\* records a failure; the semaphore is released; the coroutine ends.
RecordFailure(t) ==
    /\ responses' = add_response(responses, 0, FALSE)
    /\ origin' = Append(origin, t)
    /\ semaphore' = semaphore + 1
    /\ tasks' = [tasks EXCEPT ![t].pc = "done"]
    /\ UNCHANGED << bench_args, bench_returned, besideBenchmark >>

\* Lines 174-176 raise (connection refused, ...).
RequestRaises(t) ==
    /\ tasks[t].pc = "request"
    /\ RecordFailure(t)

\* Lines 177-181: the body is read and the response recorded.
ReadReturns(t) ==
    /\ tasks[t].pc = "read"
    /\ responses' = add_response(responses, tasks[t].status, IsSuccess(tasks[t].status))
    /\ origin' = Append(origin, t)
    /\ tasks' = [tasks EXCEPT ![t].pc = "close"]
    /\ UNCHANGED << bench_args, semaphore, bench_returned, besideBenchmark >>

\* Line 177: response.read() raises (connection reset, ...).
ReadRaises(t) ==
    /\ tasks[t].pc = "read"
    /\ RecordFailure(t)

\* Lines 174 and 176: the two `async with` blocks are left (the response is
\* released, the session closed) without an exception; the semaphore is
\* released; the coroutine ends.
CloseReturns(t) ==
    /\ tasks[t].pc = "close"
    /\ semaphore' = semaphore + 1
    /\ tasks' = [tasks EXCEPT ![t].pc = "done"]
    /\ UNCHANGED << bench_args, responses, origin, bench_returned, besideBenchmark >>

\* Lines 174 and 176: leaving an `async with` block raises (the release of
\* the response or the close of the session fails); the blocks are inside
\* the try of line 172, so the except clause of line 189 runs.
CloseRaises(t) ==
    /\ tasks[t].pc = "close"
    /\ RecordFailure(t)

\* Lines 197-203: every coroutine has ended; complete(); return result.
BenchmarkReturns ==
    /\ ~bench_returned
    /\ \A t \in Scheduled : tasks[t].pc = "done"
    /\ bench_returned' = TRUE
    /\ UNCHANGED << bench_args, semaphore, tasks, responses, origin, besideBenchmark >>

\* Lines 159-160 and 194: the result is empty, the semaphore holds
\* `concurrency`, one coroutine per request is created.
BenchmarkInit ==
    /\ bench_args \in [num_requests : 0..MaxRequests, concurrency : 0..MaxConcurrency]
    /\ semaphore = bench_args.concurrency
    /\ tasks = [t \in Requests |->
                  [pc |-> IF t <= bench_args.num_requests THEN "pending" ELSE "none",
                   status |-> 0]]
    /\ responses = << >>
    /\ origin = << >>
    /\ bench_returned = FALSE
    /\ PipelineInit /\ PaginationIdle /\ EndpointIdle /\ SubmissionIdle
    /\ TraversalIdle /\ CompressionIdle /\ NPlus1Idle /\ PoolIdle
    /\ HandlerIdle

BenchmarkNext ==
    \/ \E t \in Requests : Acquire(t)
    \/ \E t \in Requests, status \in Statuses : ResponseArrives(t, status)
    \/ \E t \in Requests : RequestRaises(t)
    \/ \E t \in Requests : ReadReturns(t)
    \/ \E t \in Requests : ReadRaises(t)
    \/ \E t \in Requests : CloseReturns(t)
    \/ \E t \in Requests : CloseRaises(t)
    \/ BenchmarkReturns

BenchmarkSpec == BenchmarkInit /\ [][BenchmarkNext]_vars

\* The steps of the coroutine t.
TaskStep(t) ==
    \/ Acquire(t)
    \/ \E status \in Statuses : ResponseArrives(t, status)
    \/ RequestRaises(t)
    \/ ReadReturns(t)
    \/ ReadRaises(t)
    \/ CloseReturns(t)
    \/ CloseRaises(t)

\* The event loop runs every coroutine that can go on, and every HTTP
\* exchange ends (with a response or an exception, aiohttp's total timeout
\* included).
BenchmarkFairSpec ==
    /\ BenchmarkInit
    /\ [][BenchmarkNext]_vars
    /\ \A t \in Requests : WF_vars(TaskStep(t))
    /\ WF_vars(BenchmarkReturns)

\* The coroutines inside `async with semaphore`.
InFlight == { t \in Requests : tasks[t].pc \in {"request", "read", "close"} }

\* C24 (as claimed): at most `concurrency` requests are in flight in every
\* reachable state, and every scheduled request eventually runs (enters the
\* section the semaphore guards).
C24_ConcurrencyBound ==
    /\ [](Cardinality(InFlight) <= bench_args.concurrency)
    /\ \A t \in Requests : (tasks[t].pc = "pending") ~> (tasks[t].pc # "pending")

\* The first half of C24 alone, which holds for every concurrency.
InFlightBounded == Cardinality(InFlight) + semaphore = bench_args.concurrency

\* The responses task t added.
ResponsesOf(t) == { i \in DOMAIN origin : origin[i] = t }

\* C17: when benchmark_url has returned, the result holds exactly
\* num_requests responses, one for each scheduled request (none recorded
\* both as a success and as a failure), and successful_requests +
\* failed_requests is the number of responses.
C17_OneResponsePerRequest ==
    /\ successful_requests(responses) + failed_requests(responses) = Len(responses)
    /\ bench_returned =>
         /\ Len(responses) = bench_args.num_requests
         /\ \A t \in Scheduled : Cardinality(ResponsesOf(t)) = 1

\* ===================================================== entries by reference
\* src/api/techniques/async_logging.py, log_request and lines 38-68 of
\* log_worker, with the entry's "extra" being the dict object of line 92 and
\* not a copy of it. One worker thread is running and the stop flag is not set.

\* A level that is not a str: the int 40 (logging.ERROR), written as a string
\* no str level of the model equals, since the values under one key must be
\* comparable.
IntLevel == "<int 40>"

\* A timestamp a caller supplies (other than Now).
CallerTime == 7

\* The contents of the callers' dicts before any call.
DictInputs ==
    { EmptyDict,
      [level |-> "verbose"],
      [level |-> "ERROR", timestamp |-> CallerTime],
      [level |-> IntLevel],
      [user |-> "u1"] }

\* type(v) is str.
IsStr(v) == v # IntLevel

\* Line 41: .lower() raises AttributeError on a value that is not a str.
LowerRaises(level) == ~IsStr(level)

\* str(e) of that AttributeError.
NoLowerError == "'int' object has no attribute 'lower'"

\* The dict created on line 79 by the call of rank n.
FreshDict(n) == NumDicts + n

\* Lines 78-93, the argument being the caller's dict object `arg`, or None
\* (0). Lines 82-86 update the object itself (item assignment, pop), and
\* line 92 puts that object in the entry. The message is the rank of the call.
RefLogRequest(arg) ==
    LET n == Len(submitted) + 1
        ref == IF arg = 0 THEN FreshDict(n) ELSE arg
        supplied == IF arg = 0 THEN NoneArg ELSE DictArg(heap[arg])
        entry == BuildEntry(n, supplied)
    IN  /\ n <= MaxCalls
        /\ heap' = [heap EXCEPT ![ref] = entry.extra]
        /\ ref_queue' = QueuePut(ref_queue, [entry EXCEPT !.extra = ref])
        /\ submitted' = Append(submitted, [supplied |-> supplied, entry |-> entry])
        /\ UNCHANGED << ref_sink, ref_stderr, besideSubmission >>

\* The caller goes on using its dict after the call: d["user"] = "changed".
CallerMutates(r) ==
    /\ heap' = [heap EXCEPT ![r] = [k \in DOMAIN heap[r] \cup {"user"} |->
                                       IF k = "user" THEN "changed" ELSE heap[r][k]]]
    /\ heap' # heap
    /\ UNCHANGED << ref_queue, submitted, ref_sink, ref_stderr, besideSubmission >>

\* The record as log_worker reads it on lines 41-43: the dict is read now.
Deref(record) == [record EXCEPT !.extra = heap[record.extra]]

\* Lines 38-60: the head of the queue is taken and dispatched.
RefDispatch ==
    /\ ref_queue # << >>
    /\ ~LowerRaises(QueueGet(ref_queue).level)
    /\ ref_queue' = QueueRest(ref_queue)
    /\ ref_sink' = Append(ref_sink, SinkCall(Deref(QueueGet(ref_queue))))
    /\ UNCHANGED << heap, submitted, ref_stderr, besideSubmission >>

\* Lines 38-41, 65-68: line 41 raises; the except clause reports it; the
\* logger is not called.
RefDispatchRaises ==
    /\ ref_queue # << >>
    /\ LowerRaises(QueueGet(ref_queue).level)
    /\ ref_queue' = QueueRest(ref_queue)
    /\ ref_stderr' = StderrWrite(ref_stderr, NoLowerError)
    /\ UNCHANGED << heap, submitted, ref_sink, besideSubmission >>

\* The callers hold dicts of any of the contents above; nothing is logged.
SubmissionInit ==
    /\ heap \in [CallerDicts \cup FreshDicts -> DictInputs]
    /\ \A r \in FreshDicts : heap[r] = EmptyDict
    /\ ref_queue = << >>
    /\ submitted = << >>
    /\ ref_sink = << >>
    /\ ref_stderr = << >>
    /\ PipelineInit /\ PaginationIdle /\ EndpointIdle /\ BenchmarkIdle
    /\ TraversalIdle /\ CompressionIdle /\ NPlus1Idle /\ PoolIdle
    /\ HandlerIdle

SubmissionNext ==
    \/ \E arg \in CallerDicts \cup {0} : RefLogRequest(arg)
    \/ \E r \in CallerDicts : CallerMutates(r)
    \/ RefDispatch
    \/ RefDispatchRaises

SubmissionSpec == SubmissionInit /\ [][SubmissionNext]_vars

\* The entry of the call of rank n, as log_request put it.
EntryOf(n) == submitted[n].entry

\* The five channels of the logger.
Severities == {"debug", "info", "warning", "error", "critical"}

\* C11 (as claimed): every entry taken from the queue is dispatched, on the
\* channel its level names when the level (whatever its letter case) is one
\* of debug, info, warning, error, critical, and on info for every other
\* level value; no level value keeps an entry from the sink.
C11_LevelFallback ==
    /\ Len(ref_sink) + Len(ref_queue) = Len(submitted)
    /\ \A j \in DOMAIN ref_sink :
         LET level == EntryOf(ref_sink[j].message).level
         IN  ref_sink[j].channel =
                 IF IsStr(level) /\ Lower(level) \in Severities
                 THEN Lower(level) ELSE "info"

C14_EntryImmutable ==
    \A j \in DOMAIN ref_sink : ref_sink[j] = SinkCall(EntryOf(ref_sink[j].message))

\* ============================================================== compression
\* src/api/techniques/compression.py, compress_response. The payload is known
\* by its size; what brotli.compress returns is known by its size too.
\* Line 209: the threshold, in bytes.
CompressionThreshold == 1024
\* How far below and above the threshold the payload sizes of the model go.
MaxDelta == 4
\* Largest size of a compressed payload.
MaxCompressed == 5

PayloadSizes == (CompressionThreshold - MaxDelta)..(CompressionThreshold + MaxDelta)

\* brotli.compress either raises or returns data of some size.
BrotliOutcomes ==
    [raises : {TRUE}, size : {0}] \cup [raises : {FALSE}, size : 0..MaxCompressed]

\* Lines 211-213 and 248-250: the uncompressed response.
PlainResponse(size) ==
    [headers |-> [k \in {"Content-Type"} |-> "application/json"],
     body |-> [encoding |-> "identity", size |-> size]]

\* Lines 220-221: the compression ratio, as the pair it is the quotient of
\* (0 when the compressed data is empty).
CompressionRatio(original_size, compressed_size) ==
    IF compressed_size > 0 THEN << original_size, compressed_size >> ELSE << 0, 1 >>

\* Lines 224-233: the compressed response (the ratio header holds the pair,
\* the time header is left out).
BrotliResponse(original_size, compressed_size) ==
    [headers |-> [k \in {"Content-Encoding", "Content-Type", "Vary",
                         "X-Compression-Ratio"} |->
                     CASE k = "Content-Encoding" -> "br"
                       [] k = "Content-Type" -> "application/json"
                       [] k = "Vary" -> "Accept-Encoding"
                       [] OTHER -> ToString(CompressionRatio(original_size, compressed_size))],
     body |-> [encoding |-> "br", size |-> compressed_size]]

\* Line 209: if original_size < 1024, the payload is not compressed.
TooSmall(original_size) == original_size < CompressionThreshold

\* Lines 192-250: the response returned for a response object without headers.
CompressResponse(original_size, brotli) ==
    IF TooSmall(original_size) THEN PlainResponse(original_size)
    ELSE IF brotli.raises THEN PlainResponse(original_size)
    ELSE BrotliResponse(original_size, brotli.size)

\* One call of compress_response.
compress_response ==
    /\ cmp_response = NoCall
    /\ cmp_response' = << CompressResponse(cmp_size, cmp_brotli) >>
    /\ UNCHANGED << cmp_size, cmp_brotli, besideCompression >>

\* Any payload size around the threshold, any outcome of brotli.compress.
CompressionInit ==
    /\ cmp_size \in PayloadSizes
    /\ cmp_brotli \in BrotliOutcomes
    /\ cmp_response = NoCall
    /\ PipelineInit /\ PaginationIdle /\ EndpointIdle /\ BenchmarkIdle
    /\ SubmissionIdle /\ TraversalIdle /\ NPlus1Idle /\ PoolIdle /\ HandlerIdle

CompressionNext == compress_response

CompressionSpec == CompressionInit /\ [][CompressionNext]_vars

\* C23 (as claimed): the response is Brotli-compressed, with Content-Encoding
\* br, only if the payload is larger than 1024 bytes; a payload of at most
\* 1024 bytes, and one whose compression raises, comes back as it is, with
\* Content-Type application/json and no Content-Encoding.
C23_CompressionThreshold ==
    cmp_response # NoCall =>
        LET r == cmp_response[1]
        IN  /\ "Content-Encoding" \in DOMAIN r.headers => cmp_size > 1024
            /\ r.body.encoding = "br" => cmp_size > 1024
            /\ (cmp_size <= 1024 \/ cmp_brotli.raises) =>
                  /\ r.body = [encoding |-> "identity", size |-> cmp_size]
                  /\ r.headers["Content-Type"] = "application/json"
                  /\ "Content-Encoding" \notin DOMAIN r.headers

\* ==================================================================== N + 1
\* src/api/techniques/avoid_n_plus_1.py, get_posts_with_comments and
\* get_posts_with_comments_optimized, on one database content. Neither query
\* has an ORDER BY: the rows come in the order the scan of the table gives,
\* which is the same for the same content, and is the order of the model's
\* sequences.
\* Lines 34 and 79: LIMIT 5.
PostLimit == 5
\* Number of rows of the posts table.
MaxTablePosts == 6
\* Number of rows of the comments table.
MaxComments == 2

\* Lines 26-37 and 71-82: the ids of the first PostLimit published posts.
RECURSIVE FirstPublished(_, _, _)
FirstPublished(table, i, limit) ==
    IF i > Len(table) \/ limit = 0 THEN << >>
    ELSE IF table[i] THEN << i >> \o FirstPublished(table, i + 1, limit - 1)
    ELSE FirstPublished(table, i + 1, limit)

\* The ids of the comments whose post_id the WHERE clause accepts (wanted is
\* the set of accepted post ids), in scan order.
CommentsWhere(comments, wanted) ==
    SelectSeq([i \in 1..Len(comments) |-> i], LAMBDA i : comments[i] \in wanted)

\* Lines 40-51: one query per post, WHERE post_id = :post_id.
NaivePost(comments, post_id) ==
    [id |-> post_id, comments |-> CommentsWhere(comments, {post_id})]

\* Lines 14-56.
GetPostsWithComments(table, comments) ==
    LET ids == FirstPublished(table, 1, PostLimit)
    IN  [k \in DOMAIN ids |-> NaivePost(comments, ids[k])]

\* Variant: a query that matches the first of the ids only.
MatchesFirst(post_id, post_ids) == post_id = post_ids[1]

\* Line 98: post_id = ANY(:post_ids).
MatchesAny(post_id, post_ids) == \E k \in DOMAIN post_ids : post_ids[k] = post_id

\* Lines 103-109: the lookup dictionary, built comment by comment from the
\* rows of the second query.
RECURSIVE GroupByPost(_, _, _, _)
GroupByPost(comments, rows, k, by_post) ==
    IF k > Len(rows) THEN by_post
    ELSE LET post_id == comments[rows[k]]
             seen == IF post_id \in DOMAIN by_post THEN by_post[post_id] ELSE << >>
         IN  GroupByPost(comments, rows, k + 1,
                 [p \in DOMAIN by_post \cup {post_id} |->
                     IF p = post_id THEN Append(seen, rows[k]) ELSE by_post[p]])

\* Lines 58-117.
GetPostsWithCommentsOptimized(table, comments) ==
    LET ids == FirstPublished(table, 1, PostLimit)
        rows == CommentsWhere(comments,
                    { comments[i] : i \in { j \in DOMAIN comments :
                                               MatchesAny(comments[j], ids) } })
        comments_by_post == GroupByPost(comments, rows, 1, << >>)
    IN  IF ids = << >> THEN << >>
        ELSE [k \in DOMAIN ids |->
                [id |-> ids[k],
                 comments |-> IF ids[k] \in DOMAIN comments_by_post
                              THEN comments_by_post[ids[k]] ELSE << >>]]

\* A call of get_posts_with_comments.
get_posts_with_comments ==
    /\ np_naive = NoCall
    /\ np_naive' = << GetPostsWithComments(np_posts, np_comments) >>
    /\ UNCHANGED << np_posts, np_comments, np_optimized, besideNPlus1 >>

\* A call of get_posts_with_comments_optimized.
get_posts_with_comments_optimized ==
    /\ np_optimized = NoCall
    /\ np_optimized' = << GetPostsWithCommentsOptimized(np_posts, np_comments) >>
    /\ UNCHANGED << np_posts, np_comments, np_naive, besideNPlus1 >>

\* Any posts, any comments (on any post of the table); no call made.
NPlus1Init ==
    /\ np_posts \in UNION { [1..n -> BOOLEAN] : n \in 0..MaxTablePosts }
    /\ np_comments \in UNION { [1..n -> 1..MaxTablePosts] : n \in 0..MaxComments }
    /\ \A c \in DOMAIN np_comments : np_comments[c] <= Len(np_posts)
    /\ np_naive = NoCall
    /\ np_optimized = NoCall
    /\ PipelineInit /\ PaginationIdle /\ EndpointIdle /\ BenchmarkIdle
    /\ SubmissionIdle /\ TraversalIdle /\ CompressionIdle /\ PoolIdle
    /\ HandlerIdle

NPlus1Next == get_posts_with_comments \/ get_posts_with_comments_optimized

NPlus1Spec == NPlus1Init /\ [][NPlus1Next]_vars

\* The ids of the comments of a post, as a set.
CommentsOf(post_id) == { c \in DOMAIN np_comments : np_comments[c] = post_id }

\* Every post of a result carries exactly the comments of that post.
CarriesItsComments(result) ==
    \A k \in DOMAIN result :
        /\ { result[k].comments[i] : i \in DOMAIN result[k].comments }
               = CommentsOf(result[k].id)
        /\ Len(result[k].comments) = Cardinality(CommentsOf(result[k].id))

Connecting == {"get_async_db", "connect_database"}

\* Lines 66-67 and 90-91: if not async_database.is_connected.
MustConnect(connected) == ~connected

\* Lines 66-68 and 90-91, up to the await: is_connected is read; when it is
\* false connect() is invoked, otherwise the function returns at once.
CallConnecting(c, fn) ==
    /\ callers[c].pc = "idle"
    /\ IF MustConnect(is_connected)
       THEN /\ callers' = [callers EXCEPT ![c] = [pc |-> "connecting", fn |-> fn,
                                                 got_connected |-> FALSE]]
            /\ connects' = connects + 1
       ELSE /\ callers' = [callers EXCEPT ![c] = [pc |-> "returned", fn |-> fn,
                                                 got_connected |-> is_connected]]
            /\ UNCHANGED connects
    /\ UNCHANGED << is_connected, besidePool >>

\* Lines 67-68 and 91, after the await: the connection is made, connect()
\* sets is_connected and the function returns.
ConnectReturns(c) ==
    /\ callers[c].pc = "connecting"
    /\ is_connected' = TRUE
    /\ callers' = [callers EXCEPT ![c].pc = "returned", ![c].got_connected = TRUE]
    /\ UNCHANGED << connects, besidePool >>

\* Lines 93-98: disconnect_database at shutdown, when every call has
\* returned.
disconnect_database ==
    /\ \A c \in Callers : callers[c].pc # "connecting"
    /\ is_connected
    /\ is_connected' = FALSE
    /\ connects' = 0
    /\ callers' = [c \in Callers |-> NoCaller]
    /\ UNCHANGED besidePool

PoolInit ==
    /\ is_connected = FALSE
    /\ connects = 0
    /\ callers = [c \in Callers |-> NoCaller]
    /\ PipelineInit /\ PaginationIdle /\ EndpointIdle /\ BenchmarkIdle
    /\ SubmissionIdle /\ TraversalIdle /\ CompressionIdle /\ NPlus1Idle
    /\ HandlerIdle

PoolNext ==
    \/ \E c \in Callers, fn \in Connecting : CallConnecting(c, fn)
    \/ \E c \in Callers : ConnectReturns(c)
    \/ disconnect_database

PoolSpec == PoolInit /\ [][PoolNext]_vars

\* C28 (as claimed): connect() is invoked at most once while the database is
\* not disconnected, whatever the interleaving of the calls, and every
\* get_async_db call that has returned got a connected database.
C28_ConnectOnce ==
    /\ connects <= 1
    /\ \A c \in Callers :
         (callers[c].pc = "returned" /\ callers[c].fn = "get_async_db")
             => callers[c].got_connected

\* ========================================================= AsyncLogHandler
\* src/api/techniques/async_logging.py, AsyncLogHandler.emit (lines 155-175)
\* and the worker's dispatch of the entries it puts (lines 38-68). One worker
\* thread runs; an iteration of its loop is one step here.

\* Number of records handed to the handler.
MaxRecords == 3

\* logging's level names, and their numbers as ranks.
LevelNames == {"DEBUG", "INFO", "WARNING", "ERROR", "CRITICAL"}
LevelNo(name) ==
    CASE Lower(name) = "debug" -> 1
      [] Lower(name) = "info" -> 2
      [] Lower(name) = "warning" -> 3
      [] Lower(name) = "error" -> 4
      [] Lower(name) = "critical" -> 5

\* The records of the model: a level name, and whether msg % args can be
\* formatted (self.format raises otherwise).
LogRecords == [levelname : LevelNames, formats : BOOLEAN]

\* Lines 167-172: the dict under "extra".
HandlerExtra == [logger |-> "app", path |-> "app.py", lineno |-> 1, timestamp |-> Now]

\* Lines 158-173: the entry emit puts for record number k.
HandlerEntry(k, record) ==
    [message |-> k, level |-> Lower(record.levelname), extra |-> HandlerExtra]

\* Line 158: self.format(record) raises inside the try.
FormatRaises(record) == ~record.formats

\* Lines 156-173: the record is formatted and the entry is put.
EmitPuts(record) ==
    /\ ~FormatRaises(record)
    /\ hd_queue' = QueuePut(hd_queue, HandlerEntry(Len(hd_emitted) + 1, record))

\* Lines 174-175: the exception is caught; handleError reports it and
\* returns; nothing is put.
EmitHandlesError(record) ==
    /\ FormatRaises(record)
    /\ UNCHANGED hd_queue

\* Lines 155-175: AsyncLogHandler.emit(record); it returns in both cases.
emit(record) ==
    /\ Len(hd_emitted) < MaxRecords
    /\ EmitPuts(record) \/ EmitHandlesError(record)
    /\ hd_emitted' = Append(hd_emitted, record)
    /\ hd_outcome' = "returned"
    /\ UNCHANGED << hd_level, hd_sink, hd_stderr, besideHandler >>

\* logging.Logger.info and its siblings: a call below the logger's effective
\* level returns at once, without making a record.
IsEnabledFor(channel, level) == LevelNo(channel) >= LevelNo(level)

\* The attributes of a LogRecord, and the two names makeRecord reserves.
RecordAttributes ==
    {"name", "msg", "args", "levelname", "levelno", "pathname", "filename",
     "module", "exc_info", "exc_text", "stack_info", "lineno", "funcName",
     "created", "msecs", "relativeCreated", "thread", "threadName",
     "processName", "process", "message", "asctime"}

\* logging.Logger.makeRecord: a key of extra that names an attribute of the
\* record raises KeyError.
MakeRecordRaises(extra) == DOMAIN extra \cap RecordAttributes # {}

\* str(e) of that KeyError.
OverwriteError == "\"Attempt to overwrite 'lineno' in LogRecord\""

\* Lines 45-57: does logger.<level>(message, extra=extra) raise.
LoggerCallRaises(entry, level) ==
    IsEnabledFor(Channel(entry.level), level) /\ MakeRecordRaises(entry.extra)

\* Lines 38-68, one iteration: get an entry, call the logger; the call
\* returns (then task_done) or raises (then the report on stderr).
HandlerDispatch ==
    /\ hd_queue # << >>
    /\ hd_queue' = QueueRest(hd_queue)
    /\ IF LoggerCallRaises(QueueGet(hd_queue), hd_level)
       THEN /\ hd_stderr' = StderrWrite(hd_stderr, OverwriteError)
            /\ UNCHANGED hd_sink
       ELSE /\ hd_sink' = Append(hd_sink, SinkCall(QueueGet(hd_queue)))
            /\ UNCHANGED hd_stderr
    /\ UNCHANGED << hd_level, hd_emitted, hd_outcome, besideHandler >>

\* Lines 26 and 103: LOG_LEVEL, the level basicConfig gives the root logger,
\* which "async_logger" inherits.
HandlerInit ==
    /\ hd_level \in LevelNames
    /\ hd_queue = << >>
    /\ hd_emitted = << >>
    /\ hd_outcome = "returned"
    /\ hd_sink = << >>
    /\ hd_stderr = << >>
    /\ PipelineInit /\ PaginationIdle /\ EndpointIdle /\ BenchmarkIdle
    /\ SubmissionIdle /\ TraversalIdle /\ CompressionIdle /\ NPlus1Idle
    /\ PoolIdle

HandlerNext ==
    \/ \E record \in LogRecords : emit(record)
    \/ HandlerDispatch

\* The worker thread runs: an entry in the queue is eventually got.
HandlerSpec == HandlerInit /\ [][HandlerNext]_vars /\ WF_vars(HandlerDispatch)

\* The logger calls that returned for record number k.
SinkCallsOf(k) == { i \in DOMAIN hd_sink : hd_sink[i].message = k }

\* C22 (as claimed): emit never raises; every record it handles is put as one
\* entry with the lower-cased level name and the fields logger, path, lineno
\* and timestamp; and the worker then hands the entry to the sink (the logger
\* call returns) on the channel of that level.
C22_HandlerDelivers ==
    /\ [](hd_outcome = "returned")
    /\ [](\A i \in DOMAIN hd_queue :
            /\ hd_queue[i].level = Lower(hd_emitted[hd_queue[i].message].levelname)
            /\ DOMAIN hd_queue[i].extra = {"logger", "path", "lineno", "timestamp"})
    /\ \A k \in 1..MaxRecords :
           (Len(hd_emitted) >= k)
               ~> (\E i \in SinkCallsOf(k) :
                       hd_sink[i].channel = Lower(hd_emitted[k].levelname))

====
